---------------------------- MODULE Spec2Model ----------------------------
(***************************************************************************)
(* A model of founder (src/src/main.rs): the history log and its           *)
(* compaction, the display/expand path conversions, the feeder that merges *)
(* history with the live scanner's output, the selector loop, and main.    *)
(*                                                                         *)
(* Paths and lines are byte strings, modelled as sequences of one-byte     *)
(* strings: <<"/", "h", "/", "a">> is /h/a.                                *)
(***************************************************************************)
EXTENDS Naturals, Sequences, FiniteSets, TLC

VARIABLES
  \* ---- path conversions (write_path_to_fzf, expand_selection)
  pstage,     \* "input" | "shown" | "expanded"
  path,       \* the path handed to write_path_to_fzf
  shown,      \* the line write_path_to_fzf wrote, without its newline
  expanded,   \* the result of expand_selection on that line
  \* ---- the history log and its compaction
  file_history,        \* the log file: its records, oldest first
  FILE_HISTORY_BYTES,  \* the OnceCell of file_history_bytes: [init, bytes]
  cstage,              \* "idle" | "compacted": compact_history_file has returned
  rewrote,             \* compact_history_file renamed a new file over the log
  \* ---- one run_finder_once: main flow, feeder thread, fd, fzf
  cwd,             \* env::current_dir()
  mode_number,     \* 0: local, 1: everything
  mpc,             \* the main flow's position in run_finder_once
  once_result,     \* what run_finder_once returned, "none" before
  fpc,             \* the feeder's position in input_thread_inner
  hidx,            \* the next history line (1 = newest) the feeder handles
  seen_history,    \* the feeder's HashSet
  fzf_buf_writer,  \* lines held by the feeder's BufWriter
  fzf_stdin,       \* lines that reached the selector's input pipe
  reader_open,     \* a read end of the selector's input pipe is open
  writer_open,     \* the feeder still holds the pipe's write end
  feed,            \* every line write_path_to_fzf wrote: [src, raw, line]
  inner_result,    \* what input_thread_inner returned, "none" before
  thread_result,   \* what input_thread returned, "none" before
  fd_state,        \* "unstarted" | "running" | "exited" | "killed"
  fd_pipe,         \* complete lines of fd's output the feeder has not read
  fd_lines,        \* every complete line fd has written, in order
  fd_partial,      \* fd was killed inside a line: its pipe ends without \n
  \* ---- one process: main, the compactor thread, run_finder_loop
  command,         \* "add" | "finder": the subcommand on the command line
  arg_path,        \* the path argument of add
  no_newline,      \* Config.no_newline
  lpc,             \* the main thread's position
  previous_query,  \* run_finder_loop's previous_query
  invoked,         \* the arguments of every run_finder_once call so far
  echoed,          \* the query echoed by every call that ended in a mode switch
  fzf_status,      \* the ExitStatus the last run_finder_once returned
  fzf_output,      \* the stdout bytes the last run_finder_once returned
  hist_arg,        \* add_path_to_history: its path, then the absolute record
  handle_stale,    \* the open append handle is of a file renamed away since
  appended,        \* the records this process wrote with add_path_to_history
  stdout,          \* the bytes this process wrote to its stdout
  command_result,  \* main's command_result, "none" before
  compactor_result,\* what compact_history_file returned, "none" before
  exit_status,     \* how the process ended: [how, code]
  cpc,             \* the compactor thread's position
  tmp_file,        \* file_history.tmp: [exists, lines]
  \* ---- runs of the program one after another, and other processes
  run_number,      \* how many processes have been started on this log
  start_log,       \* the log as it was when the running process started
  all_compacted,   \* compact_history_file returned Ok in every earlier run
  other_appended   \* records another process appended: [record, at]

pathVars == <<pstage, path, shown, expanded>>
histVars == <<file_history, FILE_HISTORY_BYTES, cstage, rewrote>>
mainFlowVars == <<mpc, once_result>>
feederVars == <<fpc, hidx, seen_history, fzf_buf_writer, feed, inner_result,
                thread_result, writer_open>>
pipeVars == <<fzf_stdin, reader_open>>
fdVars == <<fd_state, fd_pipe, fd_lines, fd_partial>>
envVars == <<cwd, mode_number>>
onceVars == <<mainFlowVars, feederVars, pipeVars, fdVars>>
feedVars == <<envVars, onceVars>>
argVars == <<command, arg_path, no_newline>>
runVars == <<run_number, start_log, all_compacted, other_appended>>
loopVars == <<previous_query, invoked, echoed, fzf_status, fzf_output>>
addVars == <<hist_arg, handle_stale, appended>>
compactorVars == <<cpc, tmp_file, compactor_result>>
procVars == <<argVars, runVars, lpc, loopVars, addVars, stdout, command_result,
              exit_status, compactorVars>>

vars == <<pathVars, histVars, feedVars, procVars>>

\* The parts of the state a specification leaves alone start, and stay, here.
PathIdle ==
  /\ pstage = "input"
  /\ path = <<>>
  /\ shown = <<>>
  /\ expanded = <<>>

HistIdle ==
  /\ file_history = <<>>
  /\ FILE_HISTORY_BYTES = [init |-> FALSE, bytes |-> <<>>]
  /\ cstage = "idle"
  /\ rewrote = FALSE

FeedIdle ==
  /\ cwd = <<"/", "c">>
  /\ mode_number = 0
  /\ mpc = "setup"
  /\ once_result = "none"
  /\ fpc = "unspawned"
  /\ hidx = 1
  /\ seen_history = {}
  /\ fzf_buf_writer = <<>>
  /\ fzf_stdin = <<>>
  /\ reader_open = FALSE
  /\ writer_open = FALSE
  /\ feed = <<>>
  /\ inner_result = "none"
  /\ thread_result = "none"
  /\ fd_state = "unstarted"
  /\ fd_pipe = <<>>
  /\ fd_lines = <<>>
  /\ fd_partial = FALSE

Running == [how |-> "running", code |-> 0]

\* No status: the local fzf_status before run_finder_once has returned one.
NoStatus == [success |-> FALSE, signal |-> FALSE, code |-> 0]

\* The first process on the log, and no other process.
RunsIdle ==
  /\ run_number = 1
  /\ all_compacted = TRUE
  /\ other_appended = <<>>

ProcIdle ==
  /\ RunsIdle
  /\ start_log = <<>>
  /\ command = "finder"
  /\ arg_path = <<>>
  /\ no_newline = FALSE
  /\ lpc = "start"
  /\ previous_query = <<>>
  /\ invoked = <<>>
  /\ echoed = <<>>
  /\ fzf_status = NoStatus
  /\ fzf_output = <<>>
  /\ hist_arg = <<>>
  /\ handle_stale = FALSE
  /\ appended = <<>>
  /\ stdout = <<>>
  /\ command_result = "none"
  /\ compactor_result = "none"
  /\ exit_status = Running
  /\ cpc = "unspawned"
  /\ tmp_file = [exists |-> FALSE, lines |-> <<>>]

-----------------------------------------------------------------------------
(* Bounds of the model.                                                    *)

\* Longest byte string drawn as an input of the path conversions.
MaxPathLen == 4

\* Most records of the log a feeder run starts with.
MaxHist == 2

\* Most lines fd prints in one run.
MaxScan == 2

\* Lines the feeder's BufWriter holds before a write goes through to the pipe
\* (std's buffer is 8 KiB).
BufCap == 1

\* Most mode switches of one run of the finder loop.
MaxSwitches == 2

\* Most records of the log a process starts with.
MaxLog == 5

\* Most records the log grows to by appends alone.
MaxAppends == 6

\* Most runs of the program one after another on one log.
MaxRuns == 7

\* Most records another process appends meanwhile.
MaxOther == 1

\* The record cap. main.rs sets 1000; the model scales it down so that logs
\* under, at and over the cap are all enumerated.
MAX_HISTORY_LINES == 4

-----------------------------------------------------------------------------
(* std::path on Unix, as far as main.rs uses it: components(),             *)
(* Path::starts_with and Path::strip_prefix.                               *)

SEP == "/"

\* The alphabet the enumerated input paths are drawn from.
Bytes == {"/", "~", ".", "a", "h"}

\* Index of the first separator of s, 0 when there is none.
FirstSep(s) ==
  IF \E i \in 1..Len(s) : s[i] = SEP
    THEN CHOOSE i \in 1..Len(s) : s[i] = SEP /\ \A j \in 1..(i-1) : s[j] # SEP
    ELSE 0

\* Index of the last separator of s, 0 when there is none.
LastSep(s) ==
  IF \E i \in 1..Len(s) : s[i] = SEP
    THEN CHOOSE i \in 1..Len(s) : s[i] = SEP /\ \A j \in (i+1)..Len(s) : s[j] # SEP
    ELSE 0

\* parse_single_component: an empty component and "." are normalized away.
IsComponent(comp) == comp # <<>> /\ comp # <<".">>

HasRoot(p) == Len(p) > 0 /\ p[1] = SEP

\* A leading "." of a rootless path is kept as the CurDir component.
IncludeCurDir(p) ==
  /\ ~HasRoot(p)
  /\ Len(p) > 0
  /\ p[1] = "."
  /\ (Len(p) = 1 \/ p[2] = SEP)

\* The front component of the body slice s and the bytes it consumes.
FrontComp(s) ==
  LET i == FirstSep(s) IN
  IF i = 0 THEN [comp |-> s, size |-> Len(s)]
           ELSE [comp |-> SubSeq(s, 1, i - 1), size |-> i]

\* The back component of the body slice s and the bytes it consumes.
BackComp(s) ==
  LET i == LastSep(s) IN
  IF i = 0 THEN [comp |-> s, size |-> Len(s)]
           ELSE [comp |-> SubSeq(s, i + 1, Len(s)), size |-> Len(s) - i + 1]

DropFront(s, n) == SubSeq(s, n + 1, Len(s))

\* Components of a body slice (the iterator's front is past the root).
RECURSIVE BodyComponents(_)
BodyComponents(s) ==
  IF s = <<>> THEN <<>>
  ELSE LET f == FrontComp(s) IN
       IF IsComponent(f.comp)
         THEN <<f.comp>> \o BodyComponents(DropFront(s, f.size))
         ELSE BodyComponents(DropFront(s, f.size))

\* Path::components. RootDir is <<"/">> and CurDir is <<".">>: no Normal
\* component equals either.
Components(p) ==
  IF HasRoot(p) THEN <<(<<SEP>>)>> \o BodyComponents(Tail(p))
  ELSE IF IncludeCurDir(p) THEN <<(<<".">>)>> \o BodyComponents(Tail(p))
  ELSE BodyComponents(p)

IsPrefixSeq(s, t) == Len(s) <= Len(t) /\ SubSeq(t, 1, Len(s)) = s

\* Path::starts_with: whole components only.
StartsWith(p, base) == IsPrefixSeq(Components(base), Components(p))

\* The body slice left after n components were taken from its front.
RECURSIVE SkipBody(_, _)
SkipBody(s, n) ==
  IF n = 0 \/ s = <<>> THEN s
  ELSE LET f == FrontComp(s) IN
       IF IsComponent(f.comp) THEN SkipBody(DropFront(s, f.size), n - 1)
                              ELSE SkipBody(DropFront(s, f.size), n)

\* Components::trim_left
RECURSIVE TrimLeft(_)
TrimLeft(s) ==
  IF s = <<>> THEN s
  ELSE LET f == FrontComp(s) IN
       IF IsComponent(f.comp) THEN s ELSE TrimLeft(DropFront(s, f.size))

\* Components::trim_right
RECURSIVE TrimRight(_)
TrimRight(s) ==
  IF s = <<>> THEN s
  ELSE LET b == BackComp(s) IN
       IF IsComponent(b.comp) THEN s
                              ELSE TrimRight(SubSeq(s, 1, Len(s) - b.size))

\* Path::strip_prefix(base), for a base of at least one component that p
\* starts with: the bytes left after base's components, as Components::as_path
\* trims them.
StripPrefix(p, base) ==
  LET n == Len(Components(base))
      body == IF HasRoot(p) \/ IncludeCurDir(p) THEN SkipBody(Tail(p), n - 1)
                                                ELSE SkipBody(p, n)
  IN TrimRight(TrimLeft(body))

-----------------------------------------------------------------------------
(* The environment: the home directory (dirs::home_dir).                   *)

home_dir == <<"/", "h">>

TILDE == <<"~">>

-----------------------------------------------------------------------------
(* write_path_to_fzf and expand_selection                                  *)

\* The line write_path_to_fzf writes for path_bytes, without the newline.
\* A display without the dot-slash arm.
write_path_without_dot_slash(path_bytes) ==
  IF StartsWith(path_bytes, home_dir)
    THEN <<"~", SEP>> \o StripPrefix(path_bytes, home_dir)
    ELSE path_bytes

write_path_to_fzf(path_bytes) ==
  IF StartsWith(path_bytes, home_dir)
    THEN <<"~", SEP>> \o StripPrefix(path_bytes, home_dir)
  ELSE IF StartsWith(path_bytes, TILDE)
    THEN <<".", SEP>> \o path_bytes
  ELSE path_bytes

expand_selection(selection) ==
  IF StartsWith(selection, TILDE)
    THEN home_dir \o <<SEP>> \o StripPrefix(selection, TILDE)
    ELSE selection

-----------------------------------------------------------------------------
(* The history log: history_lines_from_most_recent, compact_history_file   *)

Reverse(s) == [i \in 1..Len(s) |-> s[Len(s) + 1 - i]]

NonEmptyLine(line) == line # <<>>

\* The records in the order of the file, oldest first.
history_lines_from_oldest(bytes) == SelectSeq(bytes, NonEmptyLine)

\* The records of the loaded bytes, newest first, empty lines dropped.
history_lines_from_most_recent(bytes) == SelectSeq(Reverse(bytes), NonEmptyLine)

Values(s) == {s[i] : i \in 1..Len(s)}

\* The loop of compact_history_file: the first occurrence of each line, in
\* iteration order.
RECURSIVE OrderedUniqueLines(_)
OrderedUniqueLines(lines) ==
  IF lines = <<>> THEN <<>>
  ELSE LET front == OrderedUniqueLines(SubSeq(lines, 1, Len(lines) - 1))
           line == lines[Len(lines)]
       IN IF line \in Values(front) THEN front ELSE Append(front, line)

\* A truncation that keeps the tail of the vector instead of its head.
TruncateKeepsTail(s, n) == IF Len(s) <= n THEN s ELSE SubSeq(s, Len(s) - n + 1, Len(s))

\* Vec::truncate
Truncate(s, n) == IF Len(s) <= n THEN s ELSE SubSeq(s, 1, n)

\* A short-circuit that lets one record more than the cap pass.
ShortCircuitOneLate(total_lines) == total_lines <= MAX_HISTORY_LINES + 1

\* A compaction without the short-circuit.
NoShortCircuit(total_lines) == FALSE

\* A short-circuit that lets a log of exactly the cap be rewritten.
ShortCircuitBelowCap(total_lines) == total_lines < MAX_HISTORY_LINES

\* The short-circuit: the file does not need to be truncated.
ShortCircuit(total_lines) == total_lines <= MAX_HISTORY_LINES

\* A compaction that writes the kept lines in the vector's order, newest first.
CompactedNewestFirst(bytes) ==
  Truncate(OrderedUniqueLines(history_lines_from_most_recent(bytes)),
           MAX_HISTORY_LINES \div 2)

\* What compact_history_file writes to the temporary file, oldest first.
CompactedLines(bytes) ==
  Reverse(Truncate(OrderedUniqueLines(history_lines_from_most_recent(bytes)),
                   MAX_HISTORY_LINES \div 2))

\* The stored records the model draws from: absolute, lexically normalized.
RecordPool == { <<"/", "h", "/", "a">>, <<"/", "c", "/", "a">>, <<"/", "c", "/", "~">> }

\* A record reaches the log (the write of add_path_to_history, by any run).
AppendRecord(r) ==
  /\ Len(file_history) < MaxAppends
  /\ file_history' = Append(file_history, r)
  /\ FILE_HISTORY_BYTES' = [init |-> FALSE, bytes |-> <<>>]
  /\ cstage' = "idle"
  /\ rewrote' = FALSE
  /\ UNCHANGED <<pathVars, feedVars, procVars>>

\* A run's compact_history_file, start to end, with no other writer.
CompactHistoryFile ==
  /\ cstage = "idle"
  /\ LET bytes == file_history
         total_lines == Len(history_lines_from_most_recent(bytes))
     IN /\ FILE_HISTORY_BYTES' = [init |-> TRUE, bytes |-> bytes]
        /\ IF ShortCircuit(total_lines)
             THEN rewrote' = FALSE /\ UNCHANGED file_history
             ELSE rewrote' = TRUE /\ file_history' = CompactedLines(bytes)
  /\ cstage' = "compacted"
  /\ UNCHANGED <<pathVars, feedVars, procVars>>

CompactInit == PathIdle /\ HistIdle /\ FeedIdle /\ ProcIdle

CompactNext == (\E r \in RecordPool : AppendRecord(r)) \/ CompactHistoryFile

SpecCompact == CompactInit /\ [][CompactNext]_vars

\* Every sequence over S of at most n elements.
RECURSIVE SeqsUpTo(_, _)
SeqsUpTo(S, n) ==
  IF n = 0 THEN {<<>>}
  ELSE LET shorter == SeqsUpTo(S, n - 1) IN
       shorter \cup {Append(s, b) : s \in {t \in shorter : Len(t) = n - 1}, b \in S}

-----------------------------------------------------------------------------
(* One run_finder_once: the main flow, the feeder thread (input_thread),   *)
(* the scanner fd and the selector fzf.                                    *)

\* struct Mode, as run_finder_loop builds it from mode_number.
Mode(n) ==
  IF n = 0
    THEN [global_history |-> FALSE, fd_hidden_files |-> FALSE, mode_name |-> "local"]
    ELSE [global_history |-> TRUE, fd_hidden_files |-> TRUE, mode_name |-> "everything"]

\* The working directories the model draws from.
CwdPool == { <<"/", "c">>, home_dir }

\* What fd prints: paths relative to the working directory, hidden files
\* only with --hidden.
ScanPool == { <<"a">>, <<"~">> }
HiddenScanPool == { <<".", "a">> }
ScanLines(mode) ==
  IF mode.fd_hidden_files THEN ScanPool \cup HiddenScanPool ELSE ScanPool

\* A first loop without the continue for lines outside the working directory.
RelativeLineNeverSkipped(line, dir, mode) ==
  IF StartsWith(line, dir)
    THEN [skip |-> FALSE, bytes |-> StripPrefix(line, dir)]
    ELSE [skip |-> FALSE, bytes |-> line]

\* A history line as the feeder's first loop treats it: skipped, or the bytes
\* it compares and writes.
RelativeLine(line, dir, mode) ==
  IF StartsWith(line, dir)
    THEN [skip |-> FALSE, bytes |-> StripPrefix(line, dir)]
  ELSE IF ~mode.global_history
    THEN [skip |-> TRUE, bytes |-> line]
  ELSE [skip |-> FALSE, bytes |-> line]

\* A first loop that writes a history line whether or not it was seen.
NeverSuppressHistoryLine(relative_line_bytes, seen) == FALSE

\* The feeder's first loop: a history line already in the set is skipped.
SuppressHistoryLine(relative_line_bytes, seen) == relative_line_bytes \in seen

\* A second loop with the test inverted.
SuppressUnseenScanLine(stripped_line, seen) == stripped_line \notin seen

\* The feeder's second loop: a line of fd is written unless it is in the set.
SuppressScanLine(stripped_line, seen) == stripped_line \in seen

\* A first loop that forgets to insert, and a second loop that inserts.
SeenWithoutInsert(seen, bytes) == seen
SeenWithScanInsert(seen, bytes) == seen \cup {bytes}

\* The set after a history line was written.
SeenAfterHistoryWrite(seen, bytes) == seen \cup {bytes}

\* The set after a line of fd was written: the second loop never inserts.
SeenAfterScanWrite(seen, bytes) == seen

\* An input_thread that passes every result on, the broken pipe included.
InputThreadPassesOn(inner) == inner

\* input_thread: a broken pipe from input_thread_inner is success.
input_thread(inner) == IF inner = "BrokenPipe" THEN "Ok" ELSE inner

FeedEntry(src, raw) == [src |-> src, raw |-> raw, line |-> write_path_to_fzf(raw)]

\* The BufWriter takes a line without touching the pipe while it has room.
BufHasRoom == Len(fzf_buf_writer) < BufCap

\* A feeder that ends and leaves the pipe's write end open (a handle kept by
\* the spawning thread, or a clone).
FeederKeepsWriter(result) ==
  /\ inner_result' = result
  /\ thread_result' = input_thread(result)
  /\ fpc' = "done"
  /\ fzf_buf_writer' = <<>>
  /\ fzf_stdin' = IF reader_open /\ result # "WriteError"
                    THEN fzf_stdin \o fzf_buf_writer ELSE fzf_stdin
  /\ UNCHANGED <<hidx, seen_history, feed, reader_open, writer_open>>

\* input_thread_inner returns: the BufWriter is dropped (flushing what it
\* holds if the pipe still takes it) and with it the pipe's write end.
FeederReturns(result) ==
  /\ inner_result' = result
  /\ thread_result' = input_thread(result)
  /\ fpc' = "done"
  /\ writer_open' = FALSE
  /\ fzf_buf_writer' = <<>>
  /\ fzf_stdin' = IF reader_open /\ result # "WriteError"
                    THEN fzf_stdin \o fzf_buf_writer ELSE fzf_stdin
  /\ UNCHANGED <<hidx, seen_history, feed, reader_open>>

\* write_path_to_fzf on the BufWriter succeeded: the line is buffered, after
\* the buffer was written through when it was full.
WriteOk(entry) ==
  /\ feed' = Append(feed, entry)
  /\ IF BufHasRoom
       THEN /\ fzf_buf_writer' = Append(fzf_buf_writer, entry.line)
            /\ UNCHANGED fzf_stdin
       ELSE /\ reader_open
            /\ fzf_stdin' = fzf_stdin \o fzf_buf_writer
            /\ fzf_buf_writer' = <<entry.line>>
  /\ UNCHANGED <<inner_result, thread_result, writer_open, reader_open>>

\* The write failed: only a write that reaches the pipe can fail, with a
\* broken pipe when no read end is left, or with another I/O error.
WriteFails ==
  /\ ~BufHasRoom
  /\ \/ ~reader_open /\ FeederReturns("BrokenPipe")
     \/ reader_open /\ FeederReturns("WriteError")

\* A flush that leaves the buffered lines in the buffer.
FlushKeepsBuffer == UNCHANGED <<fzf_stdin, fzf_buf_writer>>

\* BufWriter::flush
FlushOk ==
  /\ reader_open \/ fzf_buf_writer = <<>>
  /\ fzf_stdin' = fzf_stdin \o fzf_buf_writer
  /\ fzf_buf_writer' = <<>>

FlushFails ==
  /\ fzf_buf_writer # <<>>
  /\ \/ ~reader_open /\ FeederReturns("BrokenPipe")
     \/ reader_open /\ FeederReturns("WriteError")

HistoryLines == history_lines_from_most_recent(FILE_HISTORY_BYTES.bytes)

\* A file_history_bytes that reads the log file at every call.
RereadCell == [init |-> TRUE, bytes |-> file_history]

\* The first use of the OnceCell by either thread reads the log file.
LoadedCell ==
  IF FILE_HISTORY_BYTES.init THEN FILE_HISTORY_BYTES
  ELSE [init |-> TRUE, bytes |-> file_history]

\* env::current_dir()? and history_lines_from_most_recent()?: the first use
\* of the OnceCell reads the log file.
FeederStart ==
  /\ fpc = "start"
  /\ \/ /\ FILE_HISTORY_BYTES' = LoadedCell
        /\ fpc' = "history"
        /\ hidx' = 1
        /\ UNCHANGED <<seen_history, fzf_buf_writer, feed, inner_result,
                       thread_result, writer_open, pipeVars>>
     \/ /\ FeederReturns("CwdError")
        /\ UNCHANGED FILE_HISTORY_BYTES
     \/ /\ ~FILE_HISTORY_BYTES.init
        /\ FeederReturns("HistoryReadError")
        /\ UNCHANGED FILE_HISTORY_BYTES
  /\ UNCHANGED <<pathVars, procVars, file_history, cstage, rewrote, envVars, mainFlowVars, fdVars>>

\* One iteration of the loop over the history lines.
FeederHistoryLine ==
  /\ fpc = "history"
  /\ hidx <= Len(HistoryLines)
  /\ \E rel \in {RelativeLine(HistoryLines[hidx], cwd, Mode(mode_number))} :
     IF rel.skip \/ SuppressHistoryLine(rel.bytes, seen_history)
       THEN /\ hidx' = hidx + 1
            /\ UNCHANGED <<fpc, seen_history, fzf_buf_writer, feed, inner_result,
                           thread_result, writer_open, pipeVars>>
       ELSE \/ /\ \E entry \in {FeedEntry("history", rel.bytes)} : WriteOk(entry)
               /\ seen_history' = SeenAfterHistoryWrite(seen_history, rel.bytes)
               /\ hidx' = hidx + 1
               /\ UNCHANGED fpc
            \/ WriteFails
  /\ UNCHANGED <<pathVars, procVars, histVars, envVars, mainFlowVars, fdVars>>

\* fzf_buf_writer.flush()? after the history lines.
FeederFlush ==
  /\ fpc = "history"
  /\ hidx > Len(HistoryLines)
  /\ \/ /\ FlushOk
        /\ fpc' = "scan"
        /\ UNCHANGED <<hidx, seen_history, feed, inner_result, thread_result,
                       writer_open, reader_open>>
     \/ FlushFails
  /\ UNCHANGED <<pathVars, procVars, histVars, envVars, mainFlowVars, fdVars>>

\* One iteration of the loop over fd's output that reads a whole line.
FeederScanLine ==
  /\ fpc = "scan"
  /\ fd_pipe # <<>>
  /\ fd_pipe' = Tail(fd_pipe)
  /\ \E stripped_line \in {Head(fd_pipe)} :
     IF SuppressScanLine(stripped_line, seen_history)
       THEN UNCHANGED <<feederVars, pipeVars>>
       ELSE \/ /\ \E entry \in {FeedEntry("fd", stripped_line)} : WriteOk(entry)
               /\ seen_history' = SeenAfterScanWrite(seen_history, stripped_line)
               /\ UNCHANGED <<fpc, hidx>>
            \/ WriteFails
  /\ UNCHANGED <<pathVars, procVars, histVars, envVars, mainFlowVars, fd_state, fd_lines, fd_partial>>

\* read_until at the end of fd's output: n == 0 ends the feeder after a last
\* flush; bytes without a final newline fail the assert_eq.
FeederScanEnd ==
  /\ fpc = "scan"
  /\ fd_pipe = <<>>
  /\ fd_state \in {"exited", "killed"}
  /\ IF fd_partial
       THEN FeederReturns("Panic")
       ELSE \/ /\ reader_open \/ fzf_buf_writer = <<>>
               /\ FeederReturns("Ok")
            \/ FlushFails
  /\ UNCHANGED <<pathVars, procVars, histVars, envVars, mainFlowVars, fdVars>>

\* read_until fails.
FeederScanReadFails ==
  /\ fpc = "scan"
  /\ FeederReturns("FdReadError")
  /\ UNCHANGED <<pathVars, procVars, histVars, envVars, mainFlowVars, fdVars>>

\* fd prints one more path.
FdEmit(line) ==
  /\ fd_state = "running"
  /\ Len(fd_lines) < MaxScan
  /\ fd_pipe' = Append(fd_pipe, line)
  /\ fd_lines' = Append(fd_lines, line)
  /\ UNCHANGED <<pathVars, procVars, histVars, envVars, mainFlowVars, feederVars, pipeVars,
                 fd_state, fd_partial>>

\* fd finishes its scan.
FdExit ==
  /\ fd_state = "running"
  /\ fd_state' = "exited"
  /\ UNCHANGED <<pathVars, procVars, histVars, envVars, mainFlowVars, feederVars, pipeVars,
                 fd_pipe, fd_lines, fd_partial>>

\* os_pipe::pipe()?, the fd child and the scoped spawn of the feeder.
OnceSetup ==
  /\ mpc = "setup"
  /\ \/ /\ mpc' = "fzf"
        /\ fpc' = "start"
        /\ reader_open' = TRUE
        /\ writer_open' = TRUE
        /\ fd_state' = "running"
        /\ UNCHANGED once_result
     \/ /\ mpc' = "returned"
        /\ once_result' = "SetupError"
        /\ UNCHANGED <<fpc, reader_open, writer_open, fd_state>>
  /\ UNCHANGED <<pathVars, procVars, histVars, envVars, hidx, seen_history, fzf_buf_writer,
                 feed, inner_result, thread_result, fzf_stdin, fd_pipe,
                 fd_lines, fd_partial>>

\* fzf could not be started: the closure returns the error, its read end of
\* the pipe is dropped, and the scope waits for the feeder.
FzfStartFails ==
  /\ mpc = "fzf"
  /\ mpc' = "scope_exit"
  /\ once_result' = "FzfStartError"
  /\ reader_open' = FALSE
  /\ UNCHANGED <<pathVars, procVars, histVars, envVars, feederVars, fzf_stdin, fdVars>>

\* fzf ran and exited, at any moment the user chose: run() returns and the
\* last read end of the pipe is closed.
FzfExits ==
  /\ mpc = "fzf"
  /\ mpc' = "kill"
  /\ reader_open' = FALSE
  /\ UNCHANGED <<pathVars, procVars, histVars, envVars, once_result, feederVars, fzf_stdin, fdVars>>

\* A kill that returns Ok and leaves fd running.
KillMisses(state) == state

\* ReaderHandle::kill: a running fd is killed, and waited for.
Killed(state) == IF state = "running" THEN "killed" ELSE state

\* fd_reader.kill()?: fd may be killed inside a line.
KillFd ==
  /\ mpc = "kill"
  /\ \/ /\ mpc' = "join"
        /\ fd_state' = Killed(fd_state)
        /\ IF fd_state = "running"
             THEN fd_partial' \in BOOLEAN
             ELSE UNCHANGED fd_partial
        /\ UNCHANGED once_result
     \/ /\ mpc' = "scope_exit"
        /\ once_result' = "KillError"
        /\ UNCHANGED <<fd_state, fd_partial>>
  /\ UNCHANGED <<pathVars, procVars, histVars, envVars, feederVars, pipeVars, fd_pipe, fd_lines>>

\* What input_thread.join().unwrap()? makes of the feeder's result.
JoinResult(thread) == thread

\* input_thread.join().unwrap()?
JoinFeeder ==
  /\ mpc = "join"
  /\ fpc = "done"
  /\ mpc' = "returned"
  /\ once_result' = JoinResult(thread_result)
  /\ UNCHANGED <<pathVars, procVars, histVars, envVars, feederVars, pipeVars, fdVars>>

\* The closure failed before the join: the scope joins the feeder itself and
\* drops its result, unless it panicked.
ScopeExit ==
  /\ mpc = "scope_exit"
  /\ fpc = "done"
  /\ mpc' = "returned"
  /\ once_result' = IF thread_result = "Panic" THEN "Panic" ELSE once_result
  /\ UNCHANGED <<pathVars, procVars, histVars, envVars, feederVars, pipeVars, fdVars>>

\* run_finder_once's locals before its first statement, over the log in log_pool.
FeedStart(log_pool, max_len) ==
  /\ PathIdle
  /\ ProcIdle
  /\ file_history \in SeqsUpTo(log_pool, max_len)
  /\ FILE_HISTORY_BYTES = [init |-> FALSE, bytes |-> <<>>]
  /\ cstage = "idle"
  /\ rewrote = FALSE
  /\ cwd \in CwdPool
  /\ mode_number \in {0, 1}
  /\ mpc = "setup"
  /\ once_result = "none"
  /\ fpc = "unspawned"
  /\ hidx = 1
  /\ seen_history = {}
  /\ fzf_buf_writer = <<>>
  /\ fzf_stdin = <<>>
  /\ reader_open = FALSE
  /\ writer_open = FALSE
  /\ feed = <<>>
  /\ inner_result = "none"
  /\ thread_result = "none"
  /\ fd_state = "unstarted"
  /\ fd_pipe = <<>>
  /\ fd_lines = <<>>
  /\ fd_partial = FALSE

FeedInit == FeedStart(RecordPool, MaxHist)

FeedNext ==
  \/ OnceSetup
  \/ FzfStartFails
  \/ FzfExits
  \/ KillFd
  \/ JoinFeeder
  \/ ScopeExit
  \/ FeederStart
  \/ FeederHistoryLine
  \/ FeederFlush
  \/ FeederScanLine
  \/ FeederScanEnd
  \/ FeederScanReadFails
  \/ \E line \in ScanLines(Mode(mode_number)) : FdEmit(line)
  \/ FdExit

SpecFeed == FeedInit /\ [][FeedNext]_vars

\* The threads of the process are scheduled: the feeder takes its next step
\* when it has one, and so does the main flow after fzf. Nothing is assumed
\* of fd, of fzf or of I/O errors.
FeedFairness ==
  /\ WF_vars(FeederStart)
  /\ WF_vars(FeederHistoryLine)
  /\ WF_vars(FeederFlush)
  /\ WF_vars(FeederScanLine)
  /\ WF_vars(FeederScanEnd)
  /\ WF_vars(KillFd)
  /\ WF_vars(JoinFeeder)
  /\ WF_vars(ScopeExit)

\* The "everything" mode run from the home directory, on a log of at most one
\* record, the record of `founder add /a`.
ShortRecordPool == {<<"/", "a">>}

FeedFairInit == FeedStart(ShortRecordPool, 1) /\ mode_number = 1 /\ cwd = home_dir

SpecFeedFair == FeedFairInit /\ [][FeedNext]_vars /\ FeedFairness

\* The feeder is a thread of its own: it takes the steps of its first loop
\* whatever the main flow, fzf and fd do.
FirstLoopFairness ==
  /\ WF_vars(FeederStart)
  /\ WF_vars(FeederHistoryLine)
  /\ WF_vars(FeederFlush)

\* Short records, one of them with the component ~.
ShortHistoryPool == {<<"/", "a">>, <<"/", "~">>}

FirstLoopInit ==
  FeedStart(ShortHistoryPool, MaxHist) /\ mode_number = 1 /\ cwd = home_dir

SpecFirstLoop == FirstLoopInit /\ [][FeedNext]_vars /\ FirstLoopFairness

-----------------------------------------------------------------------------
(* One process: main, the compactor thread, add_path_to_history and        *)
(* run_finder_loop. run_finder_once is taken here by its result.           *)

NL == "\n"

\* bstr's split_str(bytes, "\n"): the fields between newlines; an input
\* without a newline is one field.
RECURSIVE SplitLines(_)
SplitLines(bytes) ==
  IF \E i \in 1..Len(bytes) : bytes[i] = NL
    THEN LET i == CHOOSE k \in 1..Len(bytes) :
                    bytes[k] = NL /\ \A j \in 1..(k-1) : bytes[j] # NL
         IN <<SubSeq(bytes, 1, i - 1)>> \o SplitLines(SubSeq(bytes, i + 1, Len(bytes)))
    ELSE <<bytes>>

CTRL_T == <<"c", "t", "r", "l", "-", "t">>

NUM_MODES == 2

\* A ctrl-t arm that clears the query and does not push the echoed one.
QueryDropped(used_query) == <<>>

\* An exit that loses the selector's code.
ExitCodeOne(status) == 1

\* A newline arm that ignores --no-newline.
PrintedWithNewline(selection, suppress) == selection \o <<"\n">>

\* A main that returns the command's result alone.
ResultOfCommand(a, b) == a

\* A match whose last arm takes any other key for the newline.
KeyArmTakesAnyKey(key) == IF key = CTRL_T THEN "ctrl-t" ELSE "newline"

\* A match that takes the mode-switch key for a selection.
KeyArmSwitchAccepts(key) ==
  IF key = <<>> \/ key = CTRL_T THEN "newline" ELSE "panic"

\* match key: the arm taken.
KeyArm(key) ==
  IF key = <<>> THEN "newline"
  ELSE IF key = CTRL_T THEN "ctrl-t"
  ELSE "panic"

\* The ctrl-t arm: the next mode and the query carried into it.
NextModeNumber(n) == (n + 1) % NUM_MODES
CarriedQuery(used_query) == used_query

\* The exit code of the no-selection exit: fzf_status.code().unwrap_or(1)
ExitCode(status) == IF status.signal THEN 1 ELSE status.code

\* What the newline arm writes to stdout for a selection.
Printed(selection, suppress) ==
  IF suppress THEN selection ELSE selection \o <<NL>>

\* command_result.and(compactor_result)
ResultAnd(a, b) == IF a = "Ok" THEN b ELSE a

\* The exit status of a main that returns r.
MainReturn(r) == [how |-> "return", code |-> IF r = "Ok" THEN 0 ELSE 1]

Panicked == [how |-> "panic", code |-> 101]

\* Lexical resolution of components: "." dropped, ".." pops.
RECURSIVE Resolve(_)
Resolve(comps) ==
  IF comps = <<>> THEN [ok |-> TRUE, stack |-> <<>>]
  ELSE LET front == Resolve(SubSeq(comps, 1, Len(comps) - 1))
           c == comps[Len(comps)]
       IN IF ~front.ok THEN front
          ELSE IF c = <<SEP>> \/ c = <<".">> THEN front
          ELSE IF c = <<".", ".">>
            THEN IF front.stack = <<>> THEN [ok |-> FALSE, stack |-> <<>>]
                 ELSE [ok |-> TRUE, stack |-> SubSeq(front.stack, 1, Len(front.stack) - 1)]
          ELSE [ok |-> TRUE, stack |-> Append(front.stack, c)]

RECURSIVE JoinRooted(_)
JoinRooted(stack) ==
  IF stack = <<>> THEN <<>>
  ELSE JoinRooted(SubSeq(stack, 1, Len(stack) - 1)) \o <<SEP>> \o stack[Len(stack)]

\* PathAbs::new: the path made absolute against the working directory and
\* lexically resolved, with no look at the file system.
Absolutize(p, dir) ==
  LET full == IF HasRoot(p) THEN p ELSE dir \o <<SEP>> \o p
      r == Resolve(Components(full))
  IN [ok |-> r.ok, bytes |-> IF r.stack = <<>> THEN <<SEP>> ELSE JoinRooted(r.stack)]

\* What the selector can print and how it can end.
QueryPool == { <<>>, <<"q">> }
KeyPool == { <<>>, CTRL_T, <<"x">> }
SelectionPool == { <<>>, <<"a">>, <<"~", "/", "a">> }
OutputPool ==
  { q \o <<NL>> \o k \o <<NL>> \o sel \o <<NL>> :
      q \in QueryPool, k \in KeyPool, sel \in SelectionPool }
  \cup { <<>>, <<"q", NL>> }
StatusPool ==
  { [success |-> TRUE, signal |-> FALSE, code |-> 0],
    [success |-> FALSE, signal |-> FALSE, code |-> 1],
    [success |-> FALSE, signal |-> FALSE, code |-> 130],
    [success |-> FALSE, signal |-> TRUE, code |-> 0] }

\* The errors run_finder_once can return.
OnceErrors == { "SetupError", "FzfStartError", "KillError", "CwdError",
                "HistoryReadError", "FdReadError", "WriteError" }

\* The paths given to the add subcommand.
ArgPool == { <<"a">>, <<"/", "h", "/", "a">> }

\* The records of the log when the process starts. (What compaction keeps of
\* a log of several distinct records is SpecCompact's subject.)
StartPool == { <<"/", "h", "/", "a">> }

Alive == exit_status.how = "running"

\* std::thread::spawn(compact_history_file) and clap_parse_argv
MainStart ==
  /\ Alive
  /\ lpc = "start"
  /\ cpc' = "read"
  /\ lpc' = IF command = "add" THEN "add_abs" ELSE "loop_top"
  /\ hist_arg' = IF command = "add" THEN arg_path ELSE hist_arg
  /\ UNCHANGED <<pathVars, histVars, feedVars, argVars, runVars, loopVars, handle_stale,
                 appended, stdout, command_result, exit_status, tmp_file,
                 compactor_result>>

CompactorReturns(result) ==
  /\ compactor_result' = result
  /\ cpc' = "done"
  /\ cstage' = "compacted"

\* compact_history_file up to the short-circuit.
CompactRead ==
  /\ Alive
  /\ cpc = "read"
  /\ \/ /\ FILE_HISTORY_BYTES' = LoadedCell
        /\ IF ShortCircuit(Len(history_lines_from_most_recent(LoadedCell.bytes)))
             THEN CompactorReturns("Ok")
             ELSE cpc' = "create_tmp" /\ UNCHANGED <<compactor_result, cstage>>
     \/ /\ ~FILE_HISTORY_BYTES.init
        /\ CompactorReturns("HistoryReadError")
        /\ UNCHANGED FILE_HISTORY_BYTES
  /\ UNCHANGED <<pathVars, file_history, rewrote, feedVars, argVars, runVars, lpc, loopVars,
                 addVars, stdout, command_result, exit_status, tmp_file>>

\* OpenOptions::new().write(true).create_new(true).open(temp_file_path)?
CompactCreateTmp ==
  /\ Alive
  /\ cpc = "create_tmp"
  /\ \/ /\ ~tmp_file.exists
        /\ tmp_file' = [exists |-> TRUE, lines |-> <<>>]
        /\ cpc' = "write"
        /\ UNCHANGED <<compactor_result, cstage>>
     \/ /\ CompactorReturns("TmpOpenError")
        /\ UNCHANGED tmp_file
  /\ UNCHANGED <<pathVars, file_history, FILE_HISTORY_BYTES, rewrote, feedVars,
                 argVars, runVars, lpc, loopVars, addVars, stdout, command_result, exit_status>>

\* The loop writing the kept lines, and the flush.
CompactWrite ==
  /\ Alive
  /\ cpc = "write"
  /\ \/ /\ tmp_file' = [exists |-> TRUE, lines |-> CompactedLines(FILE_HISTORY_BYTES.bytes)]
        /\ cpc' = "rename"
        /\ UNCHANGED <<compactor_result, cstage>>
     \/ /\ \E n \in 0..(Len(CompactedLines(FILE_HISTORY_BYTES.bytes)) - 1) :
             tmp_file' = [exists |-> TRUE,
                          lines |-> SubSeq(CompactedLines(FILE_HISTORY_BYTES.bytes), 1, n)]
        /\ CompactorReturns("TmpWriteError")
  /\ UNCHANGED <<pathVars, file_history, FILE_HISTORY_BYTES, rewrote, feedVars,
                 argVars, runVars, lpc, loopVars, addVars, stdout, command_result, exit_status>>

\* A compaction that empties the log in place before it fills it again.
RewrittenInPlace(tmp_lines, log) == <<>>

\* A rename that leaves the file at the log's path where it is.
RenameKeepsLog(tmp_lines, log) == log

\* fs::rename replaces whatever is at the log's path by the temporary file.
Renamed(tmp_lines, log) == tmp_lines

\* fs::rename(temp_file_path, file_history_path)?: an append handle opened
\* before it keeps the file that was renamed away.
CompactRename ==
  /\ Alive
  /\ cpc = "rename"
  /\ \/ /\ file_history' = Renamed(tmp_file.lines, file_history)
        /\ tmp_file' = [exists |-> FALSE, lines |-> <<>>]
        /\ rewrote' = TRUE
        /\ handle_stale' = (lpc = "add_write")
        /\ CompactorReturns("Ok")
     \/ /\ CompactorReturns("RenameError")
        /\ UNCHANGED <<file_history, tmp_file, rewrote, handle_stale>>
  /\ UNCHANGED <<pathVars, FILE_HISTORY_BYTES, feedVars, argVars, runVars, lpc, loopVars,
                 hist_arg, appended, stdout, command_result, exit_status>>

\* add_path_to_history failed: the add subcommand's result, or the ? of the
\* newline arm.
AddFails(e) ==
  /\ command_result' = e
  /\ lpc' = "join"

\* PathAbs::new(path_osstr)?
AddAbsolutize ==
  /\ Alive
  /\ lpc = "add_abs"
  /\ \/ /\ Absolutize(hist_arg, cwd).ok
        /\ hist_arg' = Absolutize(hist_arg, cwd).bytes
        /\ lpc' = "add_open"
        /\ UNCHANGED command_result
     \/ /\ AddFails("AbsolutizeError")
        /\ UNCHANGED hist_arg
  /\ UNCHANGED <<pathVars, histVars, feedVars, argVars, runVars, loopVars, handle_stale,
                 appended, stdout, exit_status, compactorVars>>

\* OpenOptions::new().append(true).create(true).open(file_history_path()?)?
AddOpen ==
  /\ Alive
  /\ lpc = "add_open"
  /\ \/ /\ lpc' = "add_write"
        /\ handle_stale' = FALSE
        /\ UNCHANGED command_result
     \/ /\ AddFails("HistoryOpenError")
        /\ UNCHANGED handle_stale
  /\ UNCHANGED <<pathVars, histVars, feedVars, argVars, runVars, loopVars, hist_arg,
                 appended, stdout, exit_status, compactorVars>>

\* history_file.write_all(absolute_path)?: the record and its newline.
AddWrite ==
  /\ Alive
  /\ lpc = "add_write"
  /\ \/ /\ file_history' = IF handle_stale THEN file_history
                                           ELSE Append(file_history, hist_arg)
        /\ appended' = Append(appended, hist_arg)
        /\ IF command = "add"
             THEN command_result' = "Ok" /\ lpc' = "join"
             ELSE lpc' = "print" /\ UNCHANGED command_result
     \/ /\ AddFails("HistoryWriteError")
        /\ UNCHANGED <<file_history, appended>>
  /\ UNCHANGED <<pathVars, FILE_HISTORY_BYTES, cstage, rewrote, feedVars, argVars, runVars,
                 loopVars, hist_arg, handle_stale, stdout, exit_status, compactorVars>>

\* The fields of the selector's output.
Parts == SplitLines(fzf_output)

\* One run_finder_once(config, mode, previous_query), by its result. Its
\* feeder is the first user of the OnceCell unless the compactor was.
RunFinderOnce ==
  /\ Alive
  /\ lpc = "loop_top"
  /\ Len(invoked) <= MaxSwitches
  /\ invoked' = Append(invoked, [mode |-> Mode(mode_number), query |-> previous_query])
  /\ \/ /\ fzf_status' \in StatusPool
        /\ fzf_output' \in OutputPool
        /\ FILE_HISTORY_BYTES' = LoadedCell
        /\ lpc' = "output"
        /\ UNCHANGED <<command_result, exit_status>>
     \/ /\ \E e \in OnceErrors :
             /\ e = "HistoryReadError" => ~FILE_HISTORY_BYTES.init
             /\ command_result' = e
             /\ FILE_HISTORY_BYTES' =
                  IF e \in {"FdReadError", "WriteError"} THEN LoadedCell
                  ELSE FILE_HISTORY_BYTES
        /\ lpc' = "join"
        /\ UNCHANGED <<fzf_status, fzf_output, exit_status>>
     \/ /\ exit_status' = Panicked
        /\ FILE_HISTORY_BYTES' = LoadedCell
        /\ lpc' = "exited"
        /\ UNCHANGED <<fzf_status, fzf_output, command_result>>
  /\ UNCHANGED <<pathVars, file_history, cstage, rewrote, feedVars, argVars, runVars,
                 previous_query, echoed, addVars, stdout, compactorVars>>

\* The split of the output and the match on the key.
HandleOutput ==
  /\ Alive
  /\ lpc = "output"
  /\ IF Len(Parts) < 3
       THEN /\ exit_status' = Panicked
            /\ lpc' = "exited"
            /\ UNCHANGED <<mode_number, previous_query, echoed, hist_arg>>
     ELSE LET used_query == Parts[1]
              key == Parts[2]
              selection == expand_selection(Parts[3])
          IN IF KeyArm(key) = "newline"
               THEN IF ~fzf_status.success
                      THEN /\ exit_status' = [how |-> "exit", code |-> ExitCode(fzf_status)]
                           /\ lpc' = "exited"
                           /\ UNCHANGED <<mode_number, previous_query, echoed, hist_arg>>
                      ELSE /\ hist_arg' = selection
                           /\ lpc' = "add_abs"
                           /\ UNCHANGED <<mode_number, previous_query, echoed, exit_status>>
             ELSE IF KeyArm(key) = "ctrl-t"
               THEN /\ mode_number' = NextModeNumber(mode_number)
                    /\ previous_query' = CarriedQuery(used_query)
                    /\ echoed' = Append(echoed, used_query)
                    /\ lpc' = "loop_top"
                    /\ UNCHANGED <<hist_arg, exit_status>>
             ELSE /\ exit_status' = Panicked
                  /\ lpc' = "exited"
                  /\ UNCHANGED <<mode_number, previous_query, echoed, hist_arg>>
  \* fzf_status and fzf_output are locals of one iteration: continue drops them.
  /\ IF lpc' = "loop_top"
       THEN fzf_status' = NoStatus /\ fzf_output' = <<>>
       ELSE UNCHANGED <<fzf_status, fzf_output>>
  /\ UNCHANGED <<pathVars, histVars, cwd, onceVars, argVars, runVars, invoked,
                 handle_stale, appended, stdout, command_result, compactorVars>>

\* The writes to stdout that end the newline arm.
PrintSelection ==
  /\ Alive
  /\ lpc = "print"
  /\ stdout' = stdout \o Printed(expand_selection(Parts[3]), no_newline)
  /\ command_result' = "Ok"
  /\ lpc' = "join"
  /\ UNCHANGED <<pathVars, histVars, feedVars, argVars, runVars, loopVars, addVars,
                 exit_status, compactorVars>>

\* compactor_thread.join() and command_result.and(compactor_result)
MainJoin ==
  /\ Alive
  /\ lpc = "join"
  /\ cpc = "done"
  /\ exit_status' = MainReturn(ResultAnd(command_result, compactor_result))
  /\ lpc' = "exited"
  /\ UNCHANGED <<pathVars, histVars, feedVars, argVars, runVars, loopVars, addVars, stdout,
                 command_result, compactorVars>>

Init ==
  /\ PathIdle
  /\ FeedIdle
  /\ RunsIdle
  /\ file_history \in SeqsUpTo(StartPool, MaxLog)
  /\ start_log = file_history
  /\ FILE_HISTORY_BYTES = [init |-> FALSE, bytes |-> <<>>]
  /\ cstage = "idle"
  /\ rewrote = FALSE
  /\ command \in {"add", "finder"}
  /\ arg_path \in IF command = "add" THEN ArgPool ELSE {<<>>}
  /\ no_newline \in IF command = "add" THEN {FALSE} ELSE BOOLEAN
  /\ lpc = "start"
  /\ previous_query = <<>>
  /\ invoked = <<>>
  /\ echoed = <<>>
  /\ fzf_status = NoStatus
  /\ fzf_output = <<>>
  /\ hist_arg = <<>>
  /\ handle_stale = FALSE
  /\ appended = <<>>
  /\ stdout = <<>>
  /\ command_result = "none"
  /\ compactor_result = "none"
  /\ exit_status = Running
  /\ cpc = "unspawned"
  /\ tmp_file = [exists |-> FALSE, lines |-> <<>>]

Next ==
  \/ MainStart
  \/ CompactRead
  \/ CompactCreateTmp
  \/ CompactWrite
  \/ CompactRename
  \/ AddAbsolutize
  \/ AddOpen
  \/ AddWrite
  \/ RunFinderOnce
  \/ HandleOutput
  \/ PrintSelection
  \/ MainJoin

Spec == Init /\ [][Next]_vars

-----------------------------------------------------------------------------
(* SpecRuns: runs of founder add one after another on one log, from the    *)
(* empty log. SpecShared: one run of founder add on any log, with another  *)
(* process appending to the log at any moment.                             *)

\* A process of founder add that has just started.
AddProcessInit ==
  /\ PathIdle
  /\ FeedIdle
  /\ RunsIdle
  /\ FILE_HISTORY_BYTES = [init |-> FALSE, bytes |-> <<>>]
  /\ cstage = "idle"
  /\ rewrote = FALSE
  /\ command = "add"
  /\ arg_path \in ArgPool
  /\ no_newline = FALSE
  /\ lpc = "start"
  /\ previous_query = <<>>
  /\ invoked = <<>>
  /\ echoed = <<>>
  /\ fzf_status = NoStatus
  /\ fzf_output = <<>>
  /\ hist_arg = <<>>
  /\ handle_stale = FALSE
  /\ appended = <<>>
  /\ stdout = <<>>
  /\ command_result = "none"
  /\ compactor_result = "none"
  /\ exit_status = Running
  /\ cpc = "unspawned"
  /\ tmp_file = [exists |-> FALSE, lines |-> <<>>]

RunsInit ==
  /\ AddProcessInit
  /\ file_history = <<>>
  /\ start_log = <<>>

\* The process has ended and founder add is run again: a new process, with
\* its own OnceCell, on the files the last one left.
NextRun ==
  /\ lpc = "exited"
  /\ run_number < MaxRuns
  /\ run_number' = run_number + 1
  /\ start_log' = file_history
  /\ all_compacted' = (all_compacted /\ compactor_result = "Ok")
  /\ arg_path' \in ArgPool
  /\ FILE_HISTORY_BYTES' = [init |-> FALSE, bytes |-> <<>>]
  /\ cstage' = "idle"
  /\ rewrote' = FALSE
  /\ lpc' = "start"
  /\ hist_arg' = <<>>
  /\ handle_stale' = FALSE
  /\ appended' = <<>>
  /\ command_result' = "none"
  /\ compactor_result' = "none"
  /\ exit_status' = Running
  /\ cpc' = "unspawned"
  /\ UNCHANGED <<pathVars, feedVars, file_history, tmp_file, command, no_newline,
                 loopVars, stdout, other_appended>>

\* The records another process appends.
OtherPool == { <<"/", "c", "/", "~">> }

\* Another process's add_path_to_history writes its record to the log.
OtherProcessAppends(r) ==
  /\ Alive
  /\ Len(other_appended) < MaxOther
  /\ file_history' = Append(file_history, r)
  /\ other_appended' =
       Append(other_appended, [record |-> r, at |-> cpc])
  /\ UNCHANGED <<pathVars, feedVars, FILE_HISTORY_BYTES, cstage, rewrote, argVars,
                 run_number, start_log, all_compacted, lpc, loopVars, addVars,
                 stdout, command_result, exit_status, compactorVars>>

RunsNext ==
  \/ MainStart
  \/ CompactRead
  \/ CompactCreateTmp
  \/ CompactWrite
  \/ CompactRename
  \/ AddAbsolutize
  \/ AddOpen
  \/ AddWrite
  \/ MainJoin
  \/ NextRun

SpecRuns == RunsInit /\ [][RunsNext]_vars

\* The logs one process of founder add and another process meet on.
SharedPool == { <<"/", "h", "/", "a">>, <<"/", "c", "/", "a">> }

SharedInit ==
  /\ AddProcessInit
  /\ file_history \in SeqsUpTo(SharedPool, MaxLog)
  /\ start_log = file_history

SharedNext ==
  \/ MainStart
  \/ CompactRead
  \/ CompactCreateTmp
  \/ CompactWrite
  \/ CompactRename
  \/ AddAbsolutize
  \/ AddOpen
  \/ AddWrite
  \/ MainJoin
  \/ \E r \in OtherPool : OtherProcessAppends(r)

SpecShared == SharedInit /\ [][SharedNext]_vars

-----------------------------------------------------------------------------
(* SpecAttempts: the finder's attempts one after another, each with the     *)
(* first loop of its feeder, next to the compactor and another process.     *)

\* The log is short of the cap: the compactor reads it and returns.
AttemptsInit == FeedStart(SharedPool, MaxHist) /\ mode_number = 0

\* run_finder_once is called at the top of the loop.
AttemptSetup ==
  /\ Alive
  /\ lpc = "loop_top"
  /\ OnceSetup

\* The selector ended with the key ctrl-t and the feeder is past its first
\* loop: the rest of run_finder_once and the ctrl-t arm, up to the top of the
\* loop. The attempt's locals are dropped.
SwitchMode ==
  /\ Alive
  /\ lpc = "loop_top"
  /\ mpc = "kill"
  /\ fpc \in {"scan", "done"}
  /\ Len(echoed) < MaxSwitches
  /\ mode_number' = NextModeNumber(mode_number)
  /\ previous_query' = CarriedQuery(<<>>)
  /\ echoed' = Append(echoed, <<>>)
  /\ mpc' = "setup"
  /\ once_result' = "none"
  /\ fpc' = "unspawned"
  /\ hidx' = 1
  /\ seen_history' = {}
  /\ fzf_buf_writer' = <<>>
  /\ fzf_stdin' = <<>>
  /\ reader_open' = FALSE
  /\ writer_open' = FALSE
  /\ feed' = <<>>
  /\ inner_result' = "none"
  /\ thread_result' = "none"
  /\ fd_state' = "unstarted"
  /\ fd_pipe' = <<>>
  /\ fd_lines' = <<>>
  /\ fd_partial' = FALSE
  /\ UNCHANGED <<pathVars, histVars, cwd, argVars, runVars, lpc, invoked, fzf_status,
                 fzf_output, addVars, stdout, command_result, exit_status, compactorVars>>

AttemptsNext ==
  \/ MainStart
  \/ CompactRead
  \/ AttemptSetup
  \/ FeederStart
  \/ FeederHistoryLine
  \/ FeederFlush
  \/ FzfExits
  \/ SwitchMode
  \/ \E r \in OtherPool : OtherProcessAppends(r)

SpecAttempts == AttemptsInit /\ [][AttemptsNext]_vars

-----------------------------------------------------------------------------
(* SpecPath: the two conversions applied to every bounded byte string.     *)

PathInit ==
  /\ pstage = "input"
  /\ path \in SeqsUpTo(Bytes, MaxPathLen)
  /\ shown = <<>>
  /\ expanded = <<>>
  /\ HistIdle
  /\ FeedIdle
  /\ ProcIdle

ToDisplay ==
  /\ pstage = "input"
  /\ shown' = write_path_to_fzf(path)
  /\ pstage' = "shown"
  /\ UNCHANGED <<path, expanded, histVars, feedVars, procVars>>

Expand ==
  /\ pstage = "shown"
  /\ expanded' = expand_selection(shown)
  /\ pstage' = "expanded"
  /\ UNCHANGED <<path, shown, histVars, feedVars, procVars>>

PathNext == ToDisplay \/ Expand

SpecPath == PathInit /\ [][PathNext]_vars

-----------------------------------------------------------------------------
(* The claims.                                                             *)

Distinct(s) == \A i, j \in 1..Len(s) : i # j => s[i] # s[j]

\* The index of the last occurrence of v in s.
LastIdx(s, v) == CHOOSE i \in 1..Len(s) : s[i] = v /\ \A j \in (i+1)..Len(s) : s[j] # v

\* How often x occurs in s.
CountOf(s, x) == Cardinality({i \in 1..Len(s) : s[i] = x})

\* The log as compact_history_file read it.
Snapshot == FILE_HISTORY_BYTES.bytes

\* C1: after compact_history_file ran on a log of more than MAX_HISTORY_LINES
\* records, the log holds at most MAX_HISTORY_LINES / 2 records, pairwise
\* distinct, all of them records of the log it read, and every record it
\* dropped occurs last in that log before every record it kept.
C1_CompactKeepsNewestDistinct ==
  (cstage = "compacted" /\ Len(Snapshot) > MAX_HISTORY_LINES) =>
    /\ Len(file_history) <= MAX_HISTORY_LINES \div 2
    /\ Distinct(file_history)
    /\ Values(file_history) \subseteq Values(Snapshot)
    /\ \A k \in Values(file_history), d \in Values(Snapshot) \ Values(file_history) :
         LastIdx(Snapshot, k) > LastIdx(Snapshot, d)

\* C1's case: a log over the cap was compacted and a distinct value dropped.
C1_Witness ==
  /\ cstage = "compacted"
  /\ Len(Snapshot) > MAX_HISTORY_LINES
  /\ Len(file_history) = MAX_HISTORY_LINES \div 2
  /\ Values(Snapshot) # Values(file_history)

\* C8 as stated: compaction rewrites the log whenever it read at least
\* MAX_HISTORY_LINES records, exactly MAX_HISTORY_LINES included.
C8_RewritesAtCap ==
  (cstage = "compacted" /\ Len(Snapshot) >= MAX_HISTORY_LINES) => rewrote

\* C8 amended: compaction rewrites the log exactly when it read more than
\* MAX_HISTORY_LINES records; a log of exactly MAX_HISTORY_LINES records is
\* left as it is.
C8_RewritesOnlyOverCap ==
  cstage = "compacted" =>
    /\ rewrote <=> Len(Snapshot) > MAX_HISTORY_LINES
    /\ Len(Snapshot) = MAX_HISTORY_LINES => file_history = Snapshot

\* C8's case: compaction ran on a log of exactly the cap.
C8_Witness ==
  cstage = "compacted" /\ Len(Snapshot) = MAX_HISTORY_LINES /\ ~Distinct(Snapshot)

RelativizedIn(entry, dir) ==
  IF StartsWith(entry, dir) THEN StripPrefix(entry, dir) ELSE entry

\* The relativized records of the pools in each working directory, and
\* whether the record is under it.
RelativizedPool ==
  [entry \in RecordPool \cup ShortRecordPool \cup ShortHistoryPool, dir \in CwdPool |->
     [under |-> StartsWith(entry, dir), bytes |-> RelativizedIn(entry, dir)]]

IsUnderCwd(entry) ==
  IF <<entry, cwd>> \in DOMAIN RelativizedPool
    THEN RelativizedPool[entry, cwd].under
    ELSE StartsWith(entry, cwd)

Relativized(entry) ==
  IF <<entry, cwd>> \in DOMAIN RelativizedPool
    THEN RelativizedPool[entry, cwd].bytes
    ELSE RelativizedIn(entry, cwd)

HistoryPaths == {Relativized(e) : e \in Values(Snapshot)}

FeedLines == [i \in 1..Len(feed) |-> feed[i].line]

IsFromFd(entry) == entry.src = "fd"
IsFromHistory(entry) == entry.src = "history"

\* The paths of the feed's lines that came from fd, in order.
FdRaws == LET fds == SelectSeq(feed, IsFromFd) IN [i \in 1..Len(fds) |-> fds[i].raw]

\* The lines of fd the feeder has read.
Consumed == SubSeq(fd_lines, 1, Len(fd_lines) - Len(fd_pipe))

NotSeen(line) == line \notin seen_history

\* C2: when the feeder ran to the end of fd's output, a path that is in the
\* relativized history and that fd printed too is in the feed exactly once,
\* as a line from history that precedes every line from fd, and that is what
\* the selector received.
C2_HistoryPathFedOnce ==
  inner_result = "Ok" =>
    \A P \in HistoryPaths \cap Values(fd_lines) :
      /\ Cardinality({i \in 1..Len(feed) : feed[i].raw = P}) = 1
      /\ CountOf(FeedLines, write_path_to_fzf(P)) = 1
      /\ CountOf(fzf_stdin, write_path_to_fzf(P)) = 1
      /\ \A i \in 1..Len(feed) :
           feed[i].line = write_path_to_fzf(P) =>
             /\ IsFromHistory(feed[i])
             /\ \A j \in 1..Len(feed) : IsFromFd(feed[j]) => i < j

\* C2's case: the feed is complete, fd printed a path of the history, and
\* the feed holds a line from fd as well.
C2_Witness ==
  /\ inner_result = "Ok"
  /\ HistoryPaths \cap Values(fd_lines) # {}
  /\ \E j \in 1..Len(feed) : IsFromFd(feed[j])

FeederErrors == {"CwdError", "HistoryReadError", "FdReadError", "WriteError"}

\* The errors run_finder_once returns without reaching the join.
EarlyErrors == {"SetupError", "FzfStartError", "KillError"}

\* C10 as stated: a broken pipe ends the feeder at once with success, and
\* any other error of the feeder is what run_finder_once returns.
C10_FeederErrorIsTheResult ==
  /\ inner_result = "BrokenPipe" => (fpc = "done" /\ thread_result = "Ok")
  /\ (mpc = "returned" /\ inner_result \in FeederErrors) => once_result = inner_result

\* C10 amended: a broken pipe ends the feeder at once with success, and any
\* other error of the feeder is what run_finder_once returns unless starting
\* the selector or killing fd failed first: then that error is returned.
C10_FeederErrorUnlessEarlier ==
  /\ inner_result = "BrokenPipe" =>
       /\ fpc = "done"
       /\ ~writer_open
       /\ thread_result = "Ok"
       /\ mpc = "returned" => once_result \in EarlyErrors \cup {"Ok"}
  /\ inner_result \in FeederErrors =>
       /\ fpc = "done"
       /\ thread_result = inner_result
       /\ mpc = "returned" => once_result \in EarlyErrors \cup {inner_result}
  /\ (mpc = "returned" /\ once_result = "Ok") => thread_result = "Ok"

\* C10's case: a write hit the broken pipe and run_finder_once returned Ok.
C10_Witness ==
  inner_result = "BrokenPipe" /\ mpc = "returned" /\ once_result = "Ok"

\* The selector's output has its three fields and an empty key.
EmptyKey == Len(Parts) >= 3 /\ Parts[2] = <<>>

\* C3: the k-th call of run_finder_once gets the mode k-1 mod 2 (local, with
\* neither hidden files nor history outside the working directory, for the
\* first call and after an even number of switches; everything, with both,
\* after an odd number) and the query the call before it echoed, the empty
\* query for the first.
C3_ModeCycleKeepsQuery ==
  /\ Len(echoed) <= Len(invoked)
  /\ Len(invoked) <= Len(echoed) + 1
  /\ \A k \in 1..Len(invoked) :
       /\ invoked[k].mode.global_history = ((k - 1) % 2 = 1)
       /\ invoked[k].mode.fd_hidden_files = ((k - 1) % 2 = 1)
       /\ invoked[k].mode.mode_name = IF (k - 1) % 2 = 1 THEN "everything" ELSE "local"
       /\ invoked[k].query = IF k = 1 THEN <<>> ELSE echoed[k - 1]

\* C3's case: two switches, back in local mode with a query carried over.
C3_Witness ==
  /\ Len(invoked) = 3
  /\ invoked[2].query = <<"q">>
  /\ invoked[3].query = <<"q">>

\* What the newline arm prints and records for the output at hand.
SelectedPath == expand_selection(Parts[3])
SelectedRecord == Absolutize(SelectedPath, cwd).bytes
ExpectedStdout == IF no_newline THEN SelectedPath ELSE SelectedPath \o <<NL>>

\* C4: after an output with an empty key and a success status, the run
\* writes at most one record, the absolutized expand_selection of the
\* selection, prints nothing before that, prints the expanded selection and
\* a newline (none with --no-newline) and is then done; when
\* add_path_to_history fails nothing is printed.
C4_AcceptRecordsThenPrints ==
  (command = "finder" /\ EmptyKey /\ fzf_status.success) =>
    /\ appended \in {<<>>, <<SelectedRecord>>}
    /\ stdout \in {<<>>, ExpectedStdout}
    /\ stdout # <<>> => appended = <<SelectedRecord>>
    /\ command_result = "Ok" => (appended = <<SelectedRecord>> /\ stdout = ExpectedStdout)
    /\ command_result \notin {"none", "Ok"} => stdout = <<>>
    /\ lpc \in {"output", "add_abs", "add_open", "add_write", "print", "join", "exited"}
    /\ lpc = "exited" => (exit_status.how = "return" /\ command_result # "none")

\* C4's case: a selection under the home directory was accepted and the run
\* ended after recording and printing it.
C4_Witness ==
  /\ command = "finder"
  /\ EmptyKey
  /\ fzf_status.success
  /\ Parts[3] = <<"~", "/", "a">>
  /\ ~no_newline
  /\ lpc = "exited"
  /\ command_result = "Ok"

\* C5: after an output with an empty key and a failure status the process
\* ends with the selector's exit code (1 when a signal ended the selector),
\* having written no record and printed nothing.
C5_FailureStatusIsTheExitCode ==
  (command = "finder" /\ EmptyKey /\ ~fzf_status.success /\ lpc # "output") =>
    /\ lpc = "exited"
    /\ exit_status.how = "exit"
    /\ ~fzf_status.signal => exit_status.code = fzf_status.code
    /\ fzf_status.signal => exit_status.code = 1
    /\ appended = <<>>
    /\ stdout = <<>>
    /\ command_result = "none"

\* C5's case: the selector was aborted with code 130 and the process ended.
C5_Witness ==
  /\ command = "finder"
  /\ EmptyKey
  /\ fzf_status.code = 130
  /\ lpc = "exited"

\* C6: a process that returns from main has joined the compactor, and it
\* returns success exactly when the command and the compaction both
\* succeeded; no process ends with success any other way.
C6_FailureOfEitherFails ==
  /\ exit_status.how = "return" =>
       /\ cpc = "done"
       /\ compactor_result # "none"
       /\ exit_status.code = 0 <=> (command_result = "Ok" /\ compactor_result = "Ok")
  /\ (exit_status.how # "running" /\ exit_status.code = 0) => exit_status.how = "return"

\* C6's case: the selection was printed, the compaction failed, and the
\* process reported failure.
C6_Witness ==
  /\ exit_status.how = "return"
  /\ exit_status.code = 1
  /\ command_result = "Ok"
  /\ stdout # <<>>
  /\ compactor_result \notin {"none", "Ok"}

\* A result of run_finder_once is at hand and the loop cannot use it: fewer
\* than three fields, or a key that is neither empty nor ctrl-t.
UnusableOutput ==
  /\ command = "finder"
  /\ fzf_status # NoStatus
  /\ \/ Len(Parts) < 3
     \/ Parts[2] \notin {<<>>, CTRL_T}

\* C11: once the loop has looked at an output with fewer than three fields,
\* or with a key that is neither empty nor ctrl-t, the process has ended by
\* panic whatever the selector's status was: no record was appended, nothing
\* was printed, no result was returned and run_finder_once was called as
\* often as it was before.
C11_UnusableOutputPanics ==
  (UnusableOutput /\ lpc # "output") =>
    /\ lpc = "exited"
    /\ exit_status = Panicked
    /\ appended = <<>>
    /\ stdout = <<>>
    /\ command_result = "none"
    /\ hist_arg = <<>>
    /\ Len(invoked) = Len(echoed) + 1

\* C11's case: the selector reported success with three fields and a key
\* that is not ctrl-t, after one switch of mode, and the process has ended.
C11_Witness ==
  /\ UnusableOutput
  /\ lpc = "exited"
  /\ fzf_status.success
  /\ Len(Parts) >= 3
  /\ Parts[3] # <<>>
  /\ Len(invoked) = 2

\* The log the feeder read, each record relativized, oldest first.
RelLog == [k \in 1..Len(Snapshot) |-> Relativized(Snapshot[k])]

\* The records of that log the mode shows: those under the working
\* directory, and all of them in the everything mode.
ShownRecords ==
  {k \in 1..Len(Snapshot) :
     IsUnderCwd(Snapshot[k]) \/ Mode(mode_number).global_history}

\* The paths of the feed's lines that came from history, in order.
HistoryRaws ==
  LET hs == SelectSeq(feed, IsFromHistory) IN [i \in 1..Len(hs) |-> hs[i].raw]

\* The feeder's first loop has gone through the whole log.
HistoryDone == fpc = "scan" \/ inner_result \in {"Ok", "FdReadError"}

EmptyHistory == FILE_HISTORY_BYTES.init /\ Snapshot = <<>>

FeedRaws == [i \in 1..Len(feed) |-> feed[i].raw]

\* C13: with a log without records, the feed is the lines read from fd, in
\* fd's order, none added and none dropped; when the feeder ends at the end
\* of fd's output this is all fd printed, it is what the selector received,
\* and a line that does not start with a ~ component is fed as it is.
C13_EmptyHistoryFeedsTheScan ==
  (EmptyHistory /\ inner_result \in {"none", "Ok"}) =>
    /\ FeedRaws = Consumed
    /\ \A i \in 1..Len(feed) :
         /\ IsFromFd(feed[i])
         /\ ~StartsWith(feed[i].raw, TILDE) => feed[i].line = feed[i].raw
    /\ inner_result = "Ok" =>
         /\ FeedRaws = fd_lines
         /\ fzf_stdin = FeedLines

\* C13's case: no history, fd printed two distinct lines without a ~
\* component, and the selector received exactly these.
C13_Witness ==
  /\ EmptyHistory
  /\ inner_result = "Ok"
  /\ Len(fd_lines) = 2
  /\ fd_lines[1] # fd_lines[2]
  /\ \A i \in 1..2 : ~StartsWith(fd_lines[i], TILDE)
  /\ fzf_stdin = fd_lines

\* C14: compact_history_file on a log of pairwise distinct records, fewer
\* than MAX_HISTORY_LINES of them, writes no file: the log holds the same
\* records in the same order afterwards.
C14_DistinctUnderCapUntouched ==
  (cstage = "compacted" /\ Distinct(Snapshot) /\ Len(Snapshot) < MAX_HISTORY_LINES) =>
    /\ file_history = Snapshot
    /\ ~rewrote

\* C14's case: compaction ran on a log of three distinct records, more than
\* half the cap.
C14_Witness ==
  /\ cstage = "compacted"
  /\ Distinct(Snapshot)
  /\ Len(Snapshot) < MAX_HISTORY_LINES
  /\ Len(Snapshot) > MAX_HISTORY_LINES \div 2
  /\ file_history = Snapshot

\* The compaction of the running process has returned success.
Compacted == cpc = "done" /\ compactor_result = "Ok"

C16_OwnAppendSurvives ==
  (lpc = "exited" /\ command_result = "Ok") =>
    \A i \in 1..Len(appended) : appended[i] \in Values(file_history)

RECURSIVE IsSubseq(_, _)
IsSubseq(s, t) ==
  IF s = <<>> THEN TRUE
  ELSE IF t = <<>> THEN FALSE
  ELSE IF Head(s) = Head(t) THEN IsSubseq(Tail(s), Tail(t))
  ELSE IsSubseq(s, Tail(t))

\* C18: at every moment no line from history follows a line from fd in the
\* feed, the lines from history are in the order of the log read from its
\* newest record to its oldest, the lines from fd are in the order in which
\* fd printed them, and the selector has received a prefix of the feed.
C18_HistoryFirstInLogAndScanOrder ==
  /\ \A i, j \in 1..Len(feed) :
       (i < j /\ IsFromFd(feed[i])) => IsFromFd(feed[j])
  /\ IsSubseq(HistoryRaws, Reverse(RelLog))
  /\ IsSubseq(FdRaws, Consumed)
  /\ IsPrefixSeq(Consumed, fd_lines)
  /\ IsPrefixSeq(fzf_stdin, FeedLines)

\* C18's case: two history lines and two lines of fd were fed, and the
\* selector received them all.
C18_Witness ==
  /\ Len(HistoryRaws) = 2
  /\ Len(FdRaws) = 2
  /\ FdRaws[1] # FdRaws[2]
  /\ fzf_stdin = FeedLines

\* The records other processes appended, in order.
OtherRecords == {other_appended[i].record : i \in 1..Len(other_appended)}

\* What the rename put, or will have put, at the log's path.
CompactedContent == CompactedLines(Snapshot)

\* C19: at every moment the log is the content the process started on or,
\* once the rename happened, the whole compacted content, followed in both
\* cases by appended records only; it is never the partly written temporary
\* file, also when the compaction failed while writing it, and a log that
\* held records never holds none.
C19_LogSwappedWhole ==
  LET base == IF rewrote THEN CompactedContent ELSE start_log
  IN /\ IsPrefixSeq(base, file_history)
     /\ \A i \in (Len(base) + 1)..Len(file_history) :
          file_history[i] \in Values(appended) \cup OtherRecords
     /\ compactor_result # "Ok" => ~rewrote
     /\ start_log # <<>> => file_history # <<>>

\* C19's case: the compaction failed with the temporary file partly written,
\* another process appended meanwhile, and the process has ended.
C19_Witness ==
  /\ lpc = "exited"
  /\ compactor_result = "TmpWriteError"
  /\ tmp_file.exists
  /\ tmp_file.lines # <<>>
  /\ tmp_file.lines # CompactedContent
  /\ Len(other_appended) = 1
  /\ file_history # start_log

\* The appends of other processes that came after compact_history_file read
\* the log and before its rename.
AfterReadBeforeRename ==
  {i \in 1..Len(other_appended) :
     other_appended[i].at \in {"create_tmp", "write", "rename"}}

\* The record was written to the log's path after the rename too.
AppendedAfterRename(r) ==
  \/ \E i \in 1..Len(other_appended) :
       other_appended[i].record = r /\ other_appended[i].at = "done"
  \/ r \in Values(appended)

\* C20: once compact_history_file has renamed its temporary file over the
\* log, a record another process appended after the compactor's read and
\* before the rename, that the compactor had not read and that nobody
\* appended again, is not in the log: nothing re-reads the log or holds a
\* lock.
C20_AppendBeforeRenameIsLost ==
  rewrote =>
    \A i \in AfterReadBeforeRename :
      (/\ other_appended[i].record \notin Values(Snapshot)
       /\ ~AppendedAfterRename(other_appended[i].record))
        => other_appended[i].record \notin Values(file_history)

\* C20's case: another process appended its record between the read and the
\* rename, both processes ended without an error, and the record is missing.
C20_Witness ==
  /\ lpc = "exited"
  /\ command_result = "Ok"
  /\ compactor_result = "Ok"
  /\ rewrote
  /\ \E i \in AfterReadBeforeRename :
       other_appended[i].record \notin Values(file_history)

\* The index of the first occurrence of v in s.
FirstIdx(s, v) == CHOOSE i \in 1..Len(s) : s[i] = v /\ \A j \in 1..(i-1) : s[j] # v

\* How many distinct records of s occur in it before the first v.
NewerDistinct(s, v) == Cardinality({w \in Values(s) : FirstIdx(s, w) < FirstIdx(s, v)})

Min(a, b) == IF a <= b THEN a ELSE b

\* C21: after compact_history_file rewrote the log, the log read from its
\* newest record is the log it read, read from its newest record with every
\* repetition of an earlier element left out, cut after MAX_HISTORY_LINES / 2
\* elements: its i-th element is the record that has exactly i-1 distinct
\* records newer than it. Rewritten or not, the newest record read is the
\* last record of the log.
C21_CompactKeepsRecencyOrder ==
  LET before == Reverse(Snapshot)
      after == Reverse(file_history)
  IN /\ (cstage = "compacted" /\ rewrote) =>
          /\ Len(after) = Min(MAX_HISTORY_LINES \div 2, Cardinality(Values(before)))
          /\ \A i \in 1..Len(after) :
               /\ after[i] \in Values(before)
               /\ NewerDistinct(before, after[i]) = i - 1
     /\ (cstage = "compacted" /\ Snapshot # <<>>) =>
          /\ file_history # <<>>
          /\ file_history[Len(file_history)] = Snapshot[Len(Snapshot)]

\* C21's case: the log that was rewritten held three distinct records, its
\* newest one also further back, so that a repetition was left out and a
\* record was cut.
C21_Witness ==
  /\ cstage = "compacted"
  /\ rewrote
  /\ Cardinality(Values(Snapshot)) > MAX_HISTORY_LINES \div 2
  /\ \E i \in 1..(Len(Snapshot) - 1) : Snapshot[i] = Snapshot[Len(Snapshot)]
  /\ Len(file_history) = MAX_HISTORY_LINES \div 2

\* The records of the log read that are under the working directory, and
\* the others.
UnderCwd == {e \in Values(Snapshot) : IsUnderCwd(e)}
OutsideCwd == Values(Snapshot) \ UnderCwd

\* The feed's entries that came from history.
HistoryEntries == {feed[i] : i \in {j \in 1..Len(feed) : IsFromHistory(feed[j])}}

\* What write_path_to_fzf makes of the relativized records of the pools:
\* the line, and the record's place with respect to the home directory.
DisplayedPool ==
  [raw \in {RelativizedPool[x].bytes : x \in DOMAIN RelativizedPool} |->
     [line |-> write_path_to_fzf(raw),
      in_home |-> StartsWith(raw, home_dir),
      rest |-> IF StartsWith(raw, home_dir) THEN StripPrefix(raw, home_dir) ELSE raw]]

\* C22: in the local mode every history line of the feed is a record under
\* the working directory with that directory stripped, and no record outside
\* it is fed or is in seen_history; in the everything mode the records
\* outside it are fed too, as they are stored, with the home directory shown
\* as ~. Once the first loop is through, every record the mode shows has been
\* fed. seen_history holds the bytes of the history lines written, no others.
C22_ModeFiltersHistory ==
  LET global == Mode(mode_number).global_history
      outside == OutsideCwd
      inside == {Relativized(e) : e \in UnderCwd}
      fed == Values(HistoryRaws)
  IN /\ \A entry \in HistoryEntries :
          /\ entry.raw \in DOMAIN DisplayedPool
          /\ entry.line = DisplayedPool[entry.raw].line
          /\ \/ entry.raw \in inside
             \/ global /\ entry.raw \in outside
          /\ entry.raw \in outside =>
               entry.line = IF DisplayedPool[entry.raw].in_home
                              THEN TILDE \o <<SEP>> \o DisplayedPool[entry.raw].rest
                              ELSE entry.raw
     /\ ~global => /\ fed \cap outside = {}
                   /\ seen_history \cap outside = {}
     /\ seen_history = fed
     /\ HistoryDone => fed = inside \cup (IF global THEN outside ELSE {})

\* C22's case: the local mode's first loop went through a log with a record
\* under the working directory and one outside it, and fed the first.
C22_Witness ==
  /\ ~Mode(mode_number).global_history
  /\ HistoryDone
  /\ UnderCwd # {}
  /\ OutsideCwd # {}
  /\ Len(HistoryRaws) = 1
  /\ HistoryRaws[1] \notin Values(Snapshot)

\* The selector's output has its three fields and the mode-switch key.
SwitchKey == lpc = "output" /\ Len(Parts) >= 3 /\ Parts[2] = CTRL_T

\* C23: the step of run_finder_loop on an output with the key ctrl-t,
\* whatever the selector's exit status, goes back to the top of the loop in
\* the next mode with the echoed query, with nothing appended, nothing
\* printed and the process running; the step from the top of the loop is a
\* call of run_finder_once; and run_finder_loop has returned Ok only with an
\* output whose key is empty, after a success status.
C23_SwitchIgnoresStatus ==
  /\ [][(SwitchKey /\ lpc' # lpc) =>
          /\ lpc' = "loop_top"
          /\ mode_number' = (mode_number + 1) % 2
          /\ previous_query' = Parts[1]
          /\ appended' = appended
          /\ stdout' = stdout
          /\ exit_status' = exit_status
          /\ command_result' = command_result]_vars
  /\ [][(lpc = "loop_top" /\ lpc' # lpc) => Len(invoked') = Len(invoked) + 1]_vars
  /\ []((command = "finder" /\ command_result = "Ok") =>
          (EmptyKey /\ fzf_status.success))

\* C23's case: after a switch, the selector was called again and ended with
\* the key ctrl-t and a failure status; nothing was appended or printed.
C23_Witness ==
  /\ SwitchKey
  /\ ~fzf_status.success
  /\ fzf_status.code # 0
  /\ Len(echoed) >= 1
  /\ Len(invoked) = Len(echoed) + 1
  /\ appended = <<>>
  /\ stdout = <<>>

\* The lines of the feed that came from history, in order.
HistoryFeedLines ==
  LET hs == SelectSeq(feed, IsFromHistory) IN [i \in 1..Len(hs) |-> hs[i].line]

\* No line of fd has been read by the feeder.
NothingRead == Len(fd_pipe) = Len(fd_lines)

\* The first loop and its flush are behind the feeder.
PastTheFlush == fpc = "scan" \/ inner_result \in {"Ok", "FdReadError", "Panic"}

\* An error ended the feeder in its first loop or in the flush after it.
FirstLoopFailed ==
  /\ inner_result \in {"CwdError", "HistoryReadError", "WriteError", "BrokenPipe"}
  /\ NothingRead

\* C24: the feeder has read nothing of fd before its flush after the history
\* lines; past that flush the selector's input begins with the lines of all
\* records of the log the mode shows, each once; and the feeder gets past
\* the flush, or an error ends it there, while the main flow waits for the
\* selector and whatever fd does, also when fd prints nothing and does not
\* end.
C24_HistoryFlushedBeforeTheScan ==
  /\ [](fpc \in {"start", "history"} => NothingRead)
  /\ [](PastTheFlush =>
          /\ IsPrefixSeq(HistoryFeedLines, fzf_stdin)
          /\ Distinct(HistoryRaws)
          /\ Values(HistoryRaws) = {RelLog[k] : k \in ShownRecords})
  /\ (fpc = "start") ~> (PastTheFlush \/ FirstLoopFailed)

\* C24's case: fd is running and has printed nothing, the main flow waits
\* for the selector, and the selector has the two history lines.
C24_Witness ==
  /\ fpc = "scan"
  /\ mpc = "fzf"
  /\ fd_state = "running"
  /\ fd_lines = <<>>
  /\ Len(fzf_stdin) = 2
  /\ fzf_stdin = HistoryFeedLines

\* C25: for a path whose first component is ~, the line write_path_to_fzf
\* writes is ./ followed by the path, and expand_selection returns that line
\* as it is, the home directory not substituted.
C25_LiteralTildeKeptByDotSlash ==
  StartsWith(path, TILDE) =>
    /\ pstage \in {"shown", "expanded"} => shown = <<".", SEP>> \o path
    /\ pstage = "expanded" => expanded = <<".", SEP>> \o path

\* C25's case: the path ~/a went through both conversions.
C25_Witness ==
  /\ pstage = "expanded"
  /\ path = <<"~", SEP, "a">>
  /\ expanded = <<".", SEP, "~", SEP, "a">>

\* The process has ended: main returned, or the process exited or panicked.
ProcessEnded == ~Alive \/ lpc = "exited"

\* C26 as stated: when the process has ended, file_history.tmp does not
\* exist.
C26_NoTmpLeftBehind == ProcessEnded => ~tmp_file.exists

\* The records other processes appended that the process has not read.
AppendedUnread == OtherRecords \ Values(Snapshot)

\* C27: the OnceCell, once filled, keeps its bytes, whoever filled it and
\* whatever is appended to the file; the compactor and every feeder go
\* through those bytes; so in every attempt the history lines fed are those
\* of the records read that the mode shows, each once, by newest occurrence,
\* the same sequence in every attempt in that mode, and no record appended
\* since is among them.
C27_OneSnapshotForEveryAttempt ==
  /\ [][FILE_HISTORY_BYTES.init => FILE_HISTORY_BYTES' = FILE_HISTORY_BYTES]_vars
  /\ [](LET log == RelLog
            fed == HistoryRaws
        IN /\ Values(fed) \subseteq {log[k] : k \in ShownRecords}
           /\ \A r \in AppendedUnread : r \notin Values(fed) /\ Relativized(r) \notin Values(fed)
           /\ HistoryDone =>
                /\ Values(fed) = {log[k] : k \in ShownRecords}
                /\ \A i, j \in 1..Len(fed) :
                     i < j => LastIdx(log, fed[i]) > LastIdx(log, fed[j]))
  /\ []((cpc = "done" /\ compactor_result = "Ok") => FILE_HISTORY_BYTES.init)

\* C27's case: in the third attempt, in the local mode as in the first, the
\* first loop is through; another process has appended a record under the
\* working directory that the process had not read, and the file holds it.
C27_Witness ==
  /\ Len(echoed) = 2
  /\ HistoryDone
  /\ HistoryRaws # <<>>
  /\ cwd = <<"/", "c">>
  /\ AppendedUnread # {}
  /\ \A r \in AppendedUnread : IsUnderCwd(r) /\ r \in Values(file_history)

\* The selector reads the end of its input: no write end of the pipe is open.
EndOfInput == ~writer_open

\* The scanner's output has ended: fd exited or was killed.
ScanEnded == fd_state \in {"exited", "killed"}

\* C28: the write end of the selector's pipe is open only while the feeder
\* runs: when the feeder has ended, with any result, the selector is at the
\* end of its input, having received a prefix of the lines of the feed, in
\* order, and all of them when the feeder returned Ok; and once the
\* scanner's output has ended the feeder ends.
C28_FeederEndIsEndOfInput ==
  /\ [](writer_open => fpc \in {"start", "history", "scan"})
  /\ [](fpc = "done" =>
          /\ EndOfInput
          /\ IsPrefixSeq(fzf_stdin, FeedLines)
          /\ inner_result = "Ok" => fzf_stdin = FeedLines)
  /\ ScanEnded ~> (fpc = "done" /\ EndOfInput)

\* C28's case: fd printed two lines and exited, the feeder returned Ok, and
\* the selector, still running, has every line and the end of its input.
C28_Witness ==
  /\ fpc = "done"
  /\ inner_result = "Ok"
  /\ fd_state = "exited"
  /\ Len(fd_lines) = 2
  /\ mpc = "fzf"
  /\ reader_open
  /\ EndOfInput
  /\ Len(fzf_stdin) >= 2
  /\ fzf_stdin = FeedLines

=============================================================================
